---- MODULE Spec2Model ----
(***************************************************************************)
(* netstatatui: the /proc/net table reader (src/src/network.rs) and the    *)
(* terminal loop that holds its snapshots (src/src/main.rs).               *)
(*                                                                         *)
(* Text is a sequence of one-character strings, so that splitting,         *)
(* trimming and radix parsing are computed character by character as the   *)
(* Rust code computes them.  Option and Result values are records.         *)
(***************************************************************************)
EXTENDS Integers, Sequences, FiniteSets, TLC

VARIABLES
    pc,               \* position of the running function
    input,            \* argument of the function under study (decoder specifications)
    output,           \* its return value
    fs,               \* the /proc file system the monitor reads
    connections,      \* App.connections
    process_cache,    \* NetworkMonitor.process_cache
    table_state,      \* App.table_state.selected()
    due,              \* app.last_update.elapsed() >= update_rate
    overflow_checks   \* the build: TRUE = arithmetic overflow panics (debug), FALSE = wraps

vars == <<pc, input, output, fs, connections, process_cache, table_state, due, overflow_checks>>

----------------------------------------------------------------------------
(* Option, Result *)

None == [some |-> FALSE]

Some(x) == [some |-> TRUE, val |-> x]

Ok(x) == [ok |-> TRUE, val |-> x]

Err == [ok |-> FALSE]

unwrap_or(r, default) == IF r.ok THEN r.val ELSE default

\* An unreadable file, directory or directory entry (io::Error).
Unreadable == [readable |-> FALSE]

File(content) == [readable |-> TRUE, content |-> content]

----------------------------------------------------------------------------
(* str primitives *)

Whitespace == {" ", "\t", "\n", "\r"}

DecDigits == <<"0", "1", "2", "3", "4", "5", "6", "7", "8", "9">>

LowerHex == DecDigits \o <<"a", "b", "c", "d", "e", "f">>

UpperHex == DecDigits \o <<"A", "B", "C", "D", "E", "F">>

\* char::to_digit(radix): the digit's value, -1 for a character that is no digit.
to_digit(c, radix) ==
    LET hits == {i \in 1..16 : LowerHex[i] = c \/ UpperHex[i] = c}
    IN  IF hits = {} THEN -1
        ELSE LET v == (CHOOSE i \in hits : TRUE) - 1
             IN  IF v < radix THEN v ELSE -1

RECURSIVE accumulate(_, _, _, _)
accumulate(digits, radix, max, acc) ==
    IF digits = <<>> THEN Ok(acc)
    ELSE LET d == to_digit(Head(digits), radix)
         IN  IF d < 0 THEN Err                            \* InvalidDigit
             ELSE IF acc * radix + d > max THEN Err       \* PosOverflow
             ELSE accumulate(Tail(digits), radix, max, acc * radix + d)

\* uN::from_str_radix for an unsigned type with maximum max (max < 2^27 here):
\* an optional leading '+', then at least one digit, no overflow.
from_str_radix(src, radix, max) ==
    IF src = <<>> \/ src = <<"+">> THEN Err
    ELSE accumulate(IF Head(src) = "+" THEN Tail(src) ELSE src, radix, max, 0)

U8Max == 255

U16Max == 65535

RECURSIVE strip_zeros(_)
strip_zeros(ds) ==
    IF Len(ds) > 1 /\ Head(ds) = 0 THEN strip_zeros(Tail(ds)) ELSE ds

RECURSIVE horner(_, _, _)
horner(ds, radix, acc) ==
    IF ds = <<>> THEN acc ELSE horner(Tail(ds), radix, acc * radix + Head(ds))

\* 4294967295 digit by digit: the model checker's integers are 32-bit signed.
U32MaxDec == <<4, 2, 9, 4, 9, 6, 7, 2, 9, 5>>

\* a > b for two digit strings of the same length
LexGreater(a, b) ==
    \E i \in 1..Len(a) : a[i] > b[i] /\ \A j \in 1..(i - 1) : a[j] = b[j]

\* the digits of an unsigned number: an optional leading '+' is cut
unsigned(src) == IF Head(src) = "+" THEN Tail(src) ELSE src

digit_values(digits, radix) == [i \in 1..Len(digits) |-> to_digit(digits[i], radix)]

u32_dec_checked(sig) ==
    IF Len(sig) > 10 \/ (Len(sig) = 10 /\ LexGreater(sig, U32MaxDec)) THEN Err
    ELSE Ok(horner(sig, 10, 0))

u32_dec_of(vals) ==
    IF vals = <<>> \/ \E i \in 1..Len(vals) : vals[i] < 0 THEN Err
    ELSE u32_dec_checked(strip_zeros(vals))

\* str::parse::<u32>(): decimal, optional '+', overflow above 4294967295.
\* (Values from 2^31 up to 2^32 - 1 are outside the integers of the checker;
\* no modelled input has one.)
parse_u32(src) ==
    IF src = <<>> THEN Err ELSE u32_dec_of(digit_values(unsigned(src), 10))

u32_hex_bytes(sig) ==
    IF Len(sig) > 8 THEN Err
    ELSE Ok([k \in 1..4 |->
                (IF 2 * k - 1 <= 8 - Len(sig) THEN 0 ELSE sig[2 * k - 1 - (8 - Len(sig))]) * 16
                + (IF 2 * k <= 8 - Len(sig) THEN 0 ELSE sig[2 * k - (8 - Len(sig))])])

u32_hex_of(vals) ==
    IF vals = <<>> \/ \E i \in 1..Len(vals) : vals[i] < 0 THEN Err
    ELSE u32_hex_bytes(strip_zeros(vals))

\* u32::from_str_radix(src, 16), the value held as its four bytes, most
\* significant first (a u32 does not fit the checker's integers).
u32_from_hex(src) ==
    IF src = <<>> THEN Err ELSE u32_hex_of(digit_values(unsigned(src), 16))

\* Faulty variant: the bytes in network order: u32::to_be_bytes
to_be_bytes(word) == word

\* u32::to_le_bytes: least significant byte first.
to_le_bytes(word) == <<word[4], word[3], word[2], word[1]>>

IndexOf(s, c) ==
    LET hits == {i \in 1..Len(s) : s[i] = c}
    IN  IF hits = {} THEN 0 ELSE CHOOSE i \in hits : \A j \in hits : i <= j

\* str::split(char): the parts between separators, always at least one part.
RECURSIVE split(_, _)
split(s, sep) ==
    LET i == IndexOf(s, sep)
    IN  IF i = 0 THEN <<s>>
        ELSE <<SubSeq(s, 1, i - 1)>> \o split(SubSeq(s, i + 1, Len(s)), sep)

\* str::split_whitespace: the maximal runs of non-whitespace characters.
RECURSIVE split_whitespace(_)
split_whitespace(s) ==
    LET solid == {i \in 1..Len(s) : s[i] \notin Whitespace}
    IN  IF solid = {} THEN <<>>
        ELSE LET first == CHOOSE i \in solid : \A j \in solid : i <= j
                 gaps == {i \in first..Len(s) : s[i] \in Whitespace}
                 stop == IF gaps = {} THEN Len(s) + 1
                         ELSE CHOOSE i \in gaps : \A j \in gaps : i <= j
             IN  <<SubSeq(s, first, stop - 1)>>
                     \o split_whitespace(SubSeq(s, stop, Len(s)))

strip_cr(line) ==
    IF line # <<>> /\ line[Len(line)] = "\r" THEN SubSeq(line, 1, Len(line) - 1)
    ELSE line

\* str::lines: split at "\n", a final empty piece is no line, a trailing "\r" is cut.
lines(content) ==
    LET parts == split(content, "\n")
        kept == IF parts[Len(parts)] = <<>> THEN SubSeq(parts, 1, Len(parts) - 1)
                ELSE parts
    IN  [i \in 1..Len(kept) |-> strip_cr(kept[i])]

\* str::trim
trim(s) ==
    LET solid == {i \in 1..Len(s) : s[i] \notin Whitespace}
    IN  IF solid = {} THEN <<>>
        ELSE SubSeq(s, CHOOSE i \in solid : \A j \in solid : i <= j,
                       CHOOSE i \in solid : \A j \in solid : i >= j)

starts_with(s, prefix) ==
    Len(s) >= Len(prefix) /\ SubSeq(s, 1, Len(prefix)) = prefix

\* str::trim_start_matches(&str): the prefix removed as often as it repeats.
RECURSIVE trim_start_matches(_, _)
trim_start_matches(s, prefix) ==
    IF starts_with(s, prefix)
    THEN trim_start_matches(SubSeq(s, Len(prefix) + 1, Len(s)), prefix)
    ELSE s

\* str::trim_end_matches(char)
RECURSIVE trim_end_matches(_, _)
trim_end_matches(s, c) ==
    IF s # <<>> /\ s[Len(s)] = c
    THEN trim_end_matches(SubSeq(s, 1, Len(s) - 1), c)
    ELSE s

\* u32 / u8 Display
RECURSIVE to_string_dec(_)
to_string_dec(n) ==
    IF n < 10 THEN <<DecDigits[n + 1]>>
    ELSE to_string_dec(n \div 10) \o <<DecDigits[(n % 10) + 1]>>

\* {:x}
RECURSIVE to_string_hex(_)
to_string_hex(n) ==
    IF n < 16 THEN <<LowerHex[n + 1]>>
    ELSE to_string_hex(n \div 16) \o <<LowerHex[(n % 16) + 1]>>

RECURSIVE join(_, _)
join(parts, sep) ==
    IF parts = <<>> THEN <<>>
    ELSE IF Len(parts) = 1 THEN parts[1]
    ELSE parts[1] \o sep \o join(Tail(parts), sep)

----------------------------------------------------------------------------
(* AddressDecoder: NetworkMonitor::parse_address *)

\* Ipv4Addr::from([u8; 4]).to_string()
Ipv4Addr_to_string(bytes) ==
    join([i \in 1..4 |-> to_string_dec(bytes[i])], <<".">>)

\* Ipv6Addr::from([u8; 16]).to_string(): "::ffff:a.b.c.d" for an IPv4-mapped
\* address, otherwise the eight segments in lower-case hex with the first
\* longest run of two or more zero segments written "::".
Ipv6Addr_to_string(bytes) ==
    LET seg == [k \in 1..8 |-> bytes[2 * k - 1] * 256 + bytes[2 * k]]
        run(s) == CHOOSE n \in 0..(9 - s) :
                      /\ \A j \in s..(s + n - 1) : seg[j] = 0
                      /\ (s + n <= 8 => seg[s + n] # 0)
        longest == CHOOSE s \in 1..8 :
                      \A t \in 1..8 : run(t) < run(s) \/ (run(t) = run(s) /\ s <= t)
        text(a, b) == join([i \in 1..(b - a + 1) |-> to_string_hex(seg[a + i - 1])], <<":">>)
    IN  IF (\A k \in 1..5 : seg[k] = 0) /\ seg[6] = 65535
        THEN <<":", ":", "f", "f", "f", "f", ":">>
                 \o Ipv4Addr_to_string(SubSeq(bytes, 13, 16))
        ELSE IF run(longest) > 1
        THEN text(1, longest - 1) \o <<":", ":">> \o text(longest + run(longest), 8)
        ELSE text(1, 8)

Fallback == <<"0", ".", "0", ".", "0", ".", "0">>

\* the address part: 8 hex digits are an IPv4 word, 32 are 16 IPv6 octets
decode_addr(addr_hex) ==
    IF Len(addr_hex) = 8
    THEN Ipv4Addr_to_string(to_le_bytes(unwrap_or(u32_from_hex(addr_hex), <<0, 0, 0, 0>>)))
    ELSE IF Len(addr_hex) = 32
    THEN Ipv6Addr_to_string(
             [i \in 1..16 |->
                 unwrap_or(from_str_radix(SubSeq(addr_hex, 2 * i - 1, 2 * i), 16, U8Max), 0)])
    ELSE Fallback

\* Faulty variant: a token without exactly one colon is an error
decode_parts_strict(parts) ==
    IF Len(parts) # 2 THEN Err
    ELSE Ok(<<decode_addr(parts[1]), unwrap_or(from_str_radix(parts[2], 16, U16Max), 0)>>)

\* parse_address after the split: parts[1] is addr_hex, parts[2] is port_hex
decode_parts(parts) ==
    IF Len(parts) # 2 THEN Ok(<<Fallback, 0>>)
    ELSE Ok(<<decode_addr(parts[1]), unwrap_or(from_str_radix(parts[2], 16, U16Max), 0)>>)

parse_address(addr_str) == decode_parts(split(addr_str, ":"))

----------------------------------------------------------------------------
(* StateClassifier: NetworkMonitor::parse_state *)

UDP_PREFIX == <<"U", "D", "P">>

StateName(state_num) ==
    CASE state_num = 1 -> "ESTABLISHED"
      [] state_num = 2 -> "SYN_SENT"
      [] state_num = 3 -> "SYN_RECV"
      [] state_num = 4 -> "FIN_WAIT1"
      [] state_num = 5 -> "FIN_WAIT2"
      [] state_num = 6 -> "TIME_WAIT"
      [] state_num = 7 -> "CLOSE"
      [] state_num = 8 -> "CLOSE_WAIT"
      [] state_num = 9 -> "LAST_ACK"
      [] state_num = 10 -> "LISTEN"
      [] state_num = 11 -> "CLOSING"
      [] OTHER -> "UNKNOWN"

\* Faulty variant: the state code is classified for UDP rows too
parse_state_any_protocol(state_hex, protocol) ==
    Ok(StateName(unwrap_or(from_str_radix(state_hex, 16, U8Max), 0)))

parse_state(state_hex, protocol) ==
    IF starts_with(protocol, UDP_PREFIX) THEN Ok("")
    ELSE Ok(StateName(unwrap_or(from_str_radix(state_hex, 16, U8Max), 0)))

----------------------------------------------------------------------------
(* ProcessResolver *)

(* fs.proc is the /proc directory: Unreadable, or [readable, entries], each   *)
(* entry Unreadable (an Err of the directory iterator) or a record            *)
(*   [readable, name, fd, comm]                                               *)
(* with fd the /proc/<name>/fd directory (Unreadable, or [readable, entries]  *)
(* of links, each Unreadable or File(target)) and comm the /proc/<name>/comm  *)
(* file (Unreadable or File(text)).                                           *)

Dir(entries) == [readable |-> TRUE, entries |-> entries]

ProcEntry(name, fd, comm) == [readable |-> TRUE, name |-> name, fd |-> fd, comm |-> comm]

\* The directory entry a path /proc/<name> opens: the first of that name.
proc_path(proc, name) ==
    IF ~proc.readable THEN Unreadable
    ELSE LET hits == {i \in 1..Len(proc.entries) :
                         proc.entries[i].readable /\ proc.entries[i].name = name}
         IN  IF hits = {} THEN Unreadable
             ELSE proc.entries[CHOOSE i \in hits : \A j \in hits : i <= j]

SOCKET_PREFIX == <<"s", "o", "c", "k", "e", "t", ":", "[">>

\* fs::read_to_string(comm_path).ok().map(|s| s.trim().to_string())
read_comm(entry) ==
    IF entry.readable /\ entry.comm.readable THEN Some(trim(entry.comm.content))
    ELSE None

\* Faulty variant: a cached name is returned without reading comm
get_process_name_cached(self, proc, pid) ==
    IF pid \in DOMAIN self THEN Some(self[pid])
    ELSE read_comm(proc_path(proc, to_string_dec(pid)))

\* self is the monitor's process_cache: read by nothing here.
get_process_name(self, proc, pid) == read_comm(proc_path(proc, to_string_dec(pid)))

\* Faulty variant: the "socket:[" prefix is not required: any "<kind>:[<inode>]" matches
fd_matches_any_kind(link, target_inode) ==
    /\ link.readable
    /\ IndexOf(link.content, "[") > 0
    /\ parse_u32(trim_end_matches(
           SubSeq(link.content, IndexOf(link.content, "[") + 1, Len(link.content)),
           "]")) = Ok(target_inode)

\* TRUE when the descriptor link is "socket:[<target_inode>]"
fd_matches(link, target_inode) ==
    /\ link.readable
    /\ starts_with(link.content, SOCKET_PREFIX)
    /\ parse_u32(trim_end_matches(trim_start_matches(link.content, SOCKET_PREFIX), "]"))
           = Ok(target_inode)

\* the descriptors of /proc/<pid>/fd can be listed and one is the socket
has_socket(entry, target_inode) ==
    /\ entry.readable
    /\ entry.fd.readable
    /\ \E i \in 1..Len(entry.fd.entries) : fd_matches(entry.fd.entries[i], target_inode)

get_process_name_by_inode(self, proc, pid, target_inode) ==
    IF has_socket(proc_path(proc, to_string_dec(pid)), target_inode)
    THEN get_process_name(self, proc, pid)
    ELSE None

cache_insert(cache, pid, name) ==
    [p \in (DOMAIN cache) \cup {pid} |-> IF p = pid THEN name ELSE cache[p]]

\* entry.file_name().to_string_lossy().parse::<u32>() of an entry of /proc
entry_pid(entry) == IF entry.readable THEN parse_u32(entry.name) ELSE Err

NoProcess(self, scanned) ==
    [pid |-> None, process_name |-> None, self |-> self, scanned |-> scanned]

\* The loop of get_process_info over the entries of /proc still to visit:
\* scan_processes takes the next entry, scan_entry its pid, scan_found the
\* answer of get_process_name_by_inode.  scanned counts the processes whose
\* descriptors were examined.
RECURSIVE scan_processes(_, _, _, _, _)

\* Faulty variant: a process holding the socket is reported even when its comm
\* cannot be read: (Some(pid), None)
scan_found_pid_only(self, proc, entries, inode, scanned, pid, found) ==
    IF has_socket(proc_path(proc, to_string_dec(pid)), inode)
    THEN [pid |-> Some(pid), process_name |-> found,
          self |-> IF found.some THEN cache_insert(self, pid, found.val) ELSE self,
          scanned |-> scanned + 1]
    ELSE scan_processes(self, proc, Tail(entries), inode, scanned + 1)

scan_found(self, proc, entries, inode, scanned, pid, found) ==
    IF found.some
    THEN [pid |-> Some(pid), process_name |-> Some(found.val),
          self |-> cache_insert(self, pid, found.val), scanned |-> scanned + 1]
    ELSE scan_processes(self, proc, Tail(entries), inode, scanned + 1)

scan_entry(self, proc, entries, inode, scanned, pid) ==
    IF ~pid.ok THEN scan_processes(self, proc, Tail(entries), inode, scanned)
    ELSE scan_found(self, proc, entries, inode, scanned, pid.val,
                    get_process_name_by_inode(self, proc, pid.val, inode))

scan_processes(self, proc, entries, inode, scanned) ==
    IF entries = <<>> THEN NoProcess(self, scanned)
    ELSE scan_entry(self, proc, entries, inode, scanned, entry_pid(Head(entries)))

get_process_info(self, proc, inode) ==
    IF inode = 0 THEN NoProcess(self, 0)
    ELSE IF ~proc.readable THEN NoProcess(self, 0)
    ELSE scan_processes(self, proc, proc.entries, inode, 0)

----------------------------------------------------------------------------
(* TableParser, ConnectionAggregator *)

Connection(protocol, local_addr, remote_addr, state, pid, process_name) ==
    [protocol |-> protocol,
     local_address |-> local_addr[1], local_port |-> local_addr[2],
     remote_address |-> remote_addr[1], remote_port |-> remote_addr[2],
     state |-> state, pid |-> pid, process_name |-> process_name]

\* Every function of the monitor that takes &mut self returns
\* [result |-> the Rust return value, self |-> the process_cache afterwards].

\* Faulty variant: a row of exactly 10 fields is dropped too
too_short_inclusive(fields) == Len(fields) <= 10

\* fields.len() < 10
too_short(fields) == Len(fields) < 10

\* The loop of parse_proc_net_file from line i on: parse_lines takes the
\* line, parse_row its fields, push_row the decoded values.
RECURSIVE parse_lines(_, _, _, _, _, _)

push_row(self, proc, ls, i, protocol, acc, local_addr, remote_addr, state, info) ==
    IF ~local_addr.ok \/ ~remote_addr.ok \/ ~state.ok
    THEN [result |-> Err, self |-> self]
    ELSE parse_lines(info.self, proc, ls, i + 1, protocol,
             Append(acc, Connection(protocol, local_addr.val, remote_addr.val,
                                    state.val, info.pid, info.process_name)))

parse_row(self, proc, ls, i, protocol, acc, fields) ==
    IF too_short(fields) THEN parse_lines(self, proc, ls, i + 1, protocol, acc)
    ELSE push_row(self, proc, ls, i, protocol, acc,
                  parse_address(fields[2]),
                  parse_address(fields[3]),
                  parse_state(fields[4], protocol),
                  get_process_info(self, proc, unwrap_or(parse_u32(fields[10]), 0)))

parse_lines(self, proc, ls, i, protocol, acc) ==
    IF i > Len(ls) THEN [result |-> Ok(acc), self |-> self]
    ELSE IF i = 1 THEN parse_lines(self, proc, ls, i + 1, protocol, acc)
    ELSE parse_row(self, proc, ls, i, protocol, acc, split_whitespace(ls[i]))

parse_proc_net_file(self, proc, content, protocol) ==
    parse_lines(self, proc, lines(content), 1, protocol, <<>>)

TCP == <<"T", "C", "P">>

TCP6 == <<"T", "C", "P", "6">>

UDP == <<"U", "D", "P">>

UDP6 == <<"U", "D", "P", "6">>

\* connections.extend(parsed?)
extend(prev, parsed) ==
    IF ~parsed.result.ok THEN parsed
    ELSE [result |-> Ok(prev.result.val \o parsed.result.val), self |-> parsed.self]

\* if let Ok(content) = fs::read_to_string(path) { connections.extend(parse(..)?) }
read_and_extend(prev, file, proc, protocol) ==
    IF ~prev.result.ok \/ ~file.readable THEN prev
    ELSE extend(prev, parse_proc_net_file(prev.self, proc, file.content, protocol))

NoRows(self) == [result |-> Ok(<<>>), self |-> self]

parse_tcp_connections(self, files) ==
    read_and_extend(read_and_extend(NoRows(self), files.tcp, files.proc, TCP),
                    files.tcp6, files.proc, TCP6)

\* Faulty variant: an unreadable UDP table fails the call: fs::read_to_string(..)?
parse_udp_connections_strict(self, files) ==
    IF ~files.udp.readable \/ ~files.udp6.readable
    THEN [result |-> Err, self |-> self]
    ELSE read_and_extend(read_and_extend(NoRows(self), files.udp, files.proc, UDP),
                         files.udp6, files.proc, UDP6)

parse_udp_connections(self, files) ==
    read_and_extend(read_and_extend(NoRows(self), files.udp, files.proc, UDP),
                    files.udp6, files.proc, UDP6)

\* connections.extend(self.parse_udp_connections()?) after the TCP rows
extend_udp(tcp, files) ==
    IF ~tcp.result.ok THEN tcp
    ELSE extend(tcp, parse_udp_connections(tcp.self, files))

get_connections(self, files) == extend_udp(parse_tcp_connections(self, files), files)

----------------------------------------------------------------------------
(* Inputs of the decoders *)

\* Address parts of a token: well-formed IPv4 and IPv6 words, and malformed ones.
Addr_127_0_0_1 ==
    <<"0", "1", "0", "0", "0", "0", "7", "F">>

Addr_0_0_0_0 ==
    <<"0", "0", "0", "0", "0", "0", "0", "0">>

Addr_10_0_2_15 ==
    <<"0", "F", "0", "2", "0", "0", "0", "A">>

Addr_AllOnes ==
    <<"F", "F", "F", "F", "F", "F", "F", "F">>

Addr_NotHex8 ==
    <<"Z", "Z", "0", "0", "0", "0", "7", "F">>

Addr_Signed8 ==
    <<"+", "1", "0", "0", "0", "0", "7", "F">>

Addr_Short ==
    <<"7", "F">>

Addr_Empty ==
    <<>>

Addr6_Fixture ==
    <<"0", "0", "0", "0", "0", "0", "0", "0", "0", "0", "0", "0", "0", "0", "0", "0", "0", "0",
      "0", "0", "0", "0", "0", "0", "0", "1", "0", "0", "0", "0", "0", "0">>

Addr6_Zero ==
    <<"0", "0", "0", "0", "0", "0", "0", "0", "0", "0", "0", "0", "0", "0", "0", "0", "0", "0",
      "0", "0", "0", "0", "0", "0", "0", "0", "0", "0", "0", "0", "0", "0">>

Addr6_Mapped ==
    <<"0", "0", "0", "0", "0", "0", "0", "0", "0", "0", "0", "0", "0", "0", "0", "0", "F", "F",
      "F", "F", "0", "0", "0", "0", "0", "1", "0", "0", "0", "0", "7", "F">>

Addr6_NotHex ==
    <<"Z", "Z", "0", "0", "0", "0", "0", "0", "0", "0", "0", "0", "0", "0", "0", "0", "0", "0",
      "0", "0", "0", "0", "0", "0", "0", "1", "0", "0", "0", "0", "0", "0">>

Addr6_General ==
    <<"B", "8", "0", "D", "0", "1", "2", "0", "0", "0", "0", "0", "0", "0", "0", "0", "6", "7",
      "4", "5", "2", "3", "0", "1", "E", "F", "C", "D", "A", "B", "8", "9">>

AddrParts ==
    {Addr_127_0_0_1, Addr_0_0_0_0, Addr_10_0_2_15, Addr_AllOnes,
     Addr_NotHex8, Addr_Signed8, Addr_Short, Addr_Empty,
     Addr6_Fixture, Addr6_Zero, Addr6_Mapped, Addr6_NotHex,
     Addr6_General}

Port_80 ==
    <<"0", "0", "5", "0">>

Port_8080 ==
    <<"1", "F", "9", "0">>

Port_0 ==
    <<"0", "0", "0", "0">>

Port_Max ==
    <<"F", "F", "F", "F">>

Port_NotHex ==
    <<"Z", "Z", "Z", "Z">>

Port_Empty ==
    <<>>

Port_Overflow ==
    <<"1", "0", "0", "0", "0">>

PortParts == {Port_80, Port_8080, Port_0, Port_Max, Port_NotHex, Port_Empty, Port_Overflow}

\* The tokens: address and port joined by one colon, by none, or by two.
AddrTokens ==
    {a \o <<":">> \o p : a \in AddrParts, p \in PortParts}
        \cup {a \o p : a \in AddrParts, p \in PortParts}
        \cup {a \o <<":">> \o p \o <<":">> \o p : a \in AddrParts, p \in PortParts}

ByteSamples == {0, 1, 10, 127, 128, 255}

PortSamples == {0, 80, 8080, 65535}

\* The kernel's rendering of an IPv4 socket address (%08X:%04X of the
\* little-endian word): bytes d, c, b, a written high to low, then the port.
Hex2(n) == <<UpperHex[(n \div 16) + 1], UpperHex[(n % 16) + 1]>>

EncodeV4(q) ==
    Hex2(q[4]) \o Hex2(q[3]) \o Hex2(q[2]) \o Hex2(q[1]) \o <<":">>
        \o Hex2(q[5] \div 256) \o Hex2(q[5] % 256)

Quads == {<<a, b, c, d, p>> : a \in ByteSamples, b \in ByteSamples, c \in ByteSamples,
                              d \in ByteSamples, p \in PortSamples}

\* State codes as the table shows them: every two-digit upper-case hex code
\* (code = its value), and tokens that are no u8 in hex (code = -1).
StateTokens ==
    {[text |-> <<UpperHex[h], UpperHex[l]>>, code |-> (h - 1) * 16 + (l - 1)] :
        h \in 1..16, l \in 1..16}
    \cup {[text |-> <<"0", "a">>, code |-> 10], [text |-> <<"A">>, code |-> 10],
          [text |-> <<"+", "B">>, code |-> 11], [text |-> <<"0", "0", "1">>, code |-> 1],
          [text |-> <<>>, code |-> -1], [text |-> <<"Z", "Z">>, code |-> -1],
          [text |-> <<"1", "0", "0">>, code |-> -1],
          [text |-> <<"0", "x", "0", "A">>, code |-> -1],
          [text |-> <<"-", "1">>, code |-> -1]}

Protocols == {TCP, TCP6, UDP, UDP6}

----------------------------------------------------------------------------
(* Inputs of the table parser and of the resolver *)

HeaderLine ==
    <<"s", "l", " ", "l", "o", "c", "a", "l", " ", "r", "e", "m", " ", "s", "t", " ", "t", "x",
      " ", "r", "x", " ", "t", "r", " ", "t", "m", " ", "r", "e", "t", "r", " ", "u", "i", "d">>

Row_Listen ==
    <<"0", ":", " ", "0", "1", "0", "0", "0", "0", "7", "F", ":", "1", "F", "9", "0", " ", "0",
      "0", "0", "0", "0", "0", "0", "0", ":", "0", "0", "0", "0", " ", "0", "A", " ", "0", ":",
      "0", " ", "0", ":", "0", " ", "0", " ", "0", " ", "0", " ", "1", "2", "3", "4", "5", " ",
      "1">>

Row_Established ==
    <<"1", ":", " ", "0", "F", "0", "2", "0", "0", "0", "A", ":", "0", "0", "5", "0", " ", "0",
      "1", "0", "0", "0", "0", "7", "F", ":", "1", "F", "9", "0", " ", "0", "1", " ", "0", ":",
      "0", " ", "0", ":", "0", " ", "0", " ", "1", "0", "0", "0", " ", "0", " ", "7", "7", "7">>

Row_Short ==
    <<"2", ":", " ", "0", "1", "0", "0", "0", "0", "7", "F", ":", "0", "0", "1", "6", " ", "0",
      "0", "0", "0", "0", "0", "0", "0", ":", "0", "0", "0", "0", " ", "0", "A", " ", "0", ":",
      "0", " ", "0", ":", "0", " ", "0", " ", "0", " ", "0">>

Row_Blank ==
    <<>>

Row_NoInode ==
    <<"3", ":", " ", "0", "0", "0", "0", "0", "0", "0", "0", ":", "0", "0", "4", "4", " ", "0",
      "0", "0", "0", "0", "0", "0", "0", ":", "0", "0", "0", "0", " ", "0", "7", " ", "0", ":",
      "0", " ", "0", ":", "0", " ", "0", " ", "0", " ", "0", " ", "0">>

Row_Malformed ==
    <<"4", ":", " ", "X", "Y", "Z", " ", "0", "1", "0", "0", "0", "0", "7", "F", " ", "0", "C",
      " ", "0", ":", "0", " ", "0", ":", "0", " ", "0", " ", "0", " ", "0", " ", "x", "9">>

Link_Socket_12345 ==
    <<"s", "o", "c", "k", "e", "t", ":", "[", "1", "2", "3", "4", "5", "]">>

Link_Socket_777 ==
    <<"s", "o", "c", "k", "e", "t", ":", "[", "7", "7", "7", "]">>

Link_Pipe_12345 ==
    <<"p", "i", "p", "e", ":", "[", "1", "2", "3", "4", "5", "]">>

Link_DevNull ==
    <<"/", "d", "e", "v", "/", "n", "u", "l", "l">>

Comm_demo ==
    <<"d", "e", "m", "o", "\n">>

Comm_web ==
    <<" ", "w", "e", "b", " ", "\n">>

Comm_other ==
    <<"o", "t", "h", "e", "r", "\n">>

Comm_sh ==
    <<"s", "h", "\n">>

Name_100 ==
    <<"1", "0", "0">>

Name_200 ==
    <<"2", "0", "0">>

Name_300 ==
    <<"3", "0", "0">>

Name_400 ==
    <<"4", "0", "0">>

Name_500 ==
    <<"5", "0", "0">>

Name_net ==
    <<"n", "e", "t">>

E_demo ==
    ProcEntry(Name_100,
              Dir(<<File(Link_DevNull), Unreadable, File(Link_Socket_12345)>>),
              File(Comm_demo))

E_web ==
    ProcEntry(Name_200,
              Dir(<<File(Link_Socket_777), File(Link_Socket_12345)>>),
              File(Comm_web))

\* its descriptors cannot be listed (permission denied)
E_hidden == ProcEntry(Name_300, Unreadable, File(Comm_sh))

\* holds the socket, exited before its comm was read
E_nocomm == ProcEntry(Name_400, Dir(<<File(Link_Socket_12345)>>), Unreadable)

\* a pipe whose inode number is that of the socket
E_pipe == ProcEntry(Name_500, Dir(<<File(Link_Pipe_12345)>>), File(Comm_sh))

\* /proc/net: not a process
E_net == ProcEntry(Name_net, Unreadable, Unreadable)

\* pid 100 again, after the first process exited: another program, same socket inode
E_other == ProcEntry(Name_100, Dir(<<File(Link_Socket_12345)>>), File(Comm_other))

ProcDemo == Dir(<<E_net, E_demo, E_web>>)

NoFiles ==
    [tcp |-> Unreadable, tcp6 |-> Unreadable, udp |-> Unreadable, udp6 |-> Unreadable,
     proc |-> Unreadable]

\* A table file: its lines, each ended by a newline.
Table(ls) == File(join(ls, <<"\n">>) \o <<"\n">>)

EmptyCache == <<>>

\* a call on &mut self returns: its value to output, the cache to the monitor
Returns(r) ==
    /\ output' = r.result
    /\ process_cache' = r.self

----------------------------------------------------------------------------
(* Specification of the decoders: parse_address on one token *)

Idle ==
    /\ fs = NoFiles
    /\ connections = <<>>
    /\ process_cache = EmptyCache
    /\ table_state = None
    /\ due = FALSE
    /\ overflow_checks = TRUE

InitAddr ==
    /\ pc = "call"
    /\ input \in {[quad |-> None, tok |-> t] : t \in AddrTokens}
                    \cup {[quad |-> Some(q), tok |-> EncodeV4(q)] : q \in Quads}
    /\ output = None
    /\ Idle

CallParseAddress ==
    /\ pc = "call"
    /\ output' = parse_address(input.tok)
    /\ pc' = "done"
    /\ UNCHANGED <<input, fs, connections, process_cache, table_state, due, overflow_checks>>

NextAddr == CallParseAddress

SpecAddr == InitAddr /\ [][NextAddr]_vars

----------------------------------------------------------------------------
(* Specification of the classifier: parse_state on one code, directly and   *)
(* through a one-row table                                                  *)

RowWithState(state_hex) ==
    join(<<<<"0", ":">>, Addr_127_0_0_1 \o <<":">> \o Port_8080,
           Addr_0_0_0_0 \o <<":">> \o Port_0, state_hex,
           <<"0">>, <<"0">>, <<"0">>, <<"0">>, <<"0">>, <<"7", "7", "7">>>>, <<" ">>)

InitState ==
    /\ pc = "call"
    /\ input \in {[state_hex |-> t.text, code |-> t.code, protocol |-> p] :
                     t \in StateTokens, p \in Protocols}
    /\ output = None
    /\ Idle

CallParseState ==
    /\ pc = "call"
    /\ output' =
          [direct |-> parse_state(input.state_hex, input.protocol),
           table |-> parse_proc_net_file(process_cache, fs.proc,
                         Table(<<HeaderLine, RowWithState(input.state_hex)>>).content,
                         input.protocol).result]
    /\ pc' = "done"
    /\ UNCHANGED <<input, fs, connections, process_cache, table_state, due, overflow_checks>>

NextState == CallParseState

SpecState == InitState /\ [][NextState]_vars

----------------------------------------------------------------------------
(* Claims about the decoders *)

StateNames ==
    <<"ESTABLISHED", "SYN_SENT", "SYN_RECV", "FIN_WAIT1", "FIN_WAIT2", "TIME_WAIT",
      "CLOSE", "CLOSE_WAIT", "LAST_ACK", "LISTEN", "CLOSING">>

ExpectedState(code, protocol) ==
    IF protocol \in {UDP, UDP6} THEN ""
    ELSE IF code \in 1..11 THEN StateNames[code]
    ELSE "UNKNOWN"

\* C4: the state of a Connection is empty for UDP and UDP6 whatever the code
\* of the row; for TCP and TCP6 it is the name of the code (0x01 ESTABLISHED
\* .. 0x0B CLOSING) and UNKNOWN for an unmapped or unparseable code.
C4_StateByProtocol ==
    pc = "done" =>
        /\ output.direct = Ok(ExpectedState(input.code, input.protocol))
        /\ output.table.ok
        /\ \A i \in 1..Len(output.table.val) :
               /\ output.table.val[i].protocol = input.protocol
               /\ output.table.val[i].state = ExpectedState(input.code, input.protocol)
        /\ (input.state_hex # <<>> => Len(output.table.val) = 1)

C4_Witness ==
    /\ pc = "done"
    /\ input.protocol = UDP6
    /\ input.code = 10
    /\ Len(output.table.val) = 1
    /\ output.table.val[1].state = ""

ColonCount(tok) == Cardinality({i \in 1..Len(tok) : tok[i] = ":"})

BeforeColon(tok) == SubSeq(tok, 1, IndexOf(tok, ":") - 1)

AfterColon(tok) == SubSeq(tok, IndexOf(tok, ":") + 1, Len(tok))

AllHex(s) == \A i \in 1..Len(s) : to_digit(s[i], 16) >= 0

\* a hex number as from_str_radix reads one: digits, or '+' and digits
HexNumber(s) ==
    \/ s # <<>> /\ AllHex(s)
    \/ Len(s) > 1 /\ Head(s) = "+" /\ AllHex(Tail(s))

HexDigitsOf(s) == IF Head(s) = "+" THEN Tail(s) ELSE s

HexValue(s) == horner([i \in 1..Len(HexDigitsOf(s)) |-> to_digit(HexDigitsOf(s)[i], 16)], 16, 0)

\* malformed as C5 has it: not exactly one colon, an address part whose length
\* is neither 8 nor 32, or a character in the address part that is no hex digit
Malformed(tok) ==
    \/ ColonCount(tok) # 1
    \/ Len(BeforeColon(tok)) \notin {8, 32}
    \/ ~AllHex(BeforeColon(tok))

\* C5 as stated: every malformed token decodes to Ok(("0.0.0.0", 0)).
C5_MalformedIsAllZero ==
    (pc = "done" /\ ~input.quad.some /\ Malformed(input.tok))
        => output = Ok(<<Fallback, 0>>)

\* C5 amended: parse_address never returns an error; a token without exactly
\* one colon decodes to ("0.0.0.0", 0); with exactly one colon the port is
\* decoded on its own (the value of the port part when it is a hex number of
\* at most 16 bits, else 0), the address is "0.0.0.0" when the address part
\* is neither 8 nor 32 long or is 8 long and no hex number, and a 32-long
\* address part always gives IPv6 text, never "0.0.0.0".
C5_FallbackPerPart ==
    pc = "done" =>
        /\ output.ok
        /\ ColonCount(input.tok) # 1 => output.val = <<Fallback, 0>>
        /\ ColonCount(input.tok) = 1 =>
              LET a == BeforeColon(input.tok)
                  p == AfterColon(input.tok)
              IN  /\ output.val[2] = IF HexNumber(p) /\ Len(HexDigitsOf(p)) <= 4
                                     THEN HexValue(p) ELSE 0
                  /\ Len(a) \notin {8, 32} => output.val[1] = Fallback
                  /\ (Len(a) = 8 /\ ~HexNumber(a)) => output.val[1] = Fallback
                  /\ Len(a) = 32 => IndexOf(output.val[1], ":") > 0

\* a malformed address part beside a well-formed port: the port survives
C5_Witness ==
    /\ pc = "done"
    /\ input.tok = Addr_Short \o <<":">> \o Port_80
    /\ output = Ok(<<Fallback, 80>>)

\* C6: an IPv4 address a.b.c.d and a port p, written as the kernel writes
\* them, decode to the text "a.b.c.d" and to p.
C6_Ipv4RoundTrip ==
    (pc = "done" /\ input.quad.some) =>
        LET q == input.quad.val
            parts == split(output.val[1], ".")
        IN  /\ output.ok
            /\ output.val[2] = q[5]
            /\ Len(parts) = 4
            /\ \A i \in 1..4 :
                   /\ from_str_radix(parts[i], 10, U8Max) = Ok(q[i])
                   /\ Len(parts[i]) = 1 \/ Head(parts[i]) \notin {"0", "+"}

C6_Witness ==
    /\ pc = "done"
    /\ input.quad = Some(<<127, 0, 0, 1, 8080>>)
    /\ input.tok = Addr_127_0_0_1 \o <<":">> \o Port_8080
    /\ output = Ok(<<<<"1", "2", "7", ".", "0", ".", "0", ".", "1">>, 8080>>)

----------------------------------------------------------------------------
(* Specification of the table parser: parse_proc_net_file on one table *)

MaxRows == 3

RowCat == {Row_Listen, Row_Established, Row_Short, Row_Blank, Row_NoInode, Row_Malformed}

RowSeqs == UNION {[1..n -> RowCat] : n \in 0..MaxRows}

InitTable ==
    /\ pc = "call"
    /\ input \in {[first |-> f, rows |-> r, protocol |-> p] :
                     f \in {HeaderLine, Row_Listen}, r \in RowSeqs, p \in {TCP, UDP6}}
    /\ output = None
    /\ fs = [NoFiles EXCEPT !.proc = ProcDemo]
    /\ connections = <<>>
    /\ process_cache = EmptyCache
    /\ table_state = None
    /\ due = FALSE
    /\ overflow_checks = TRUE

CallParseProcNetFile ==
    /\ pc = "call"
    /\ Returns(parse_proc_net_file(process_cache, fs.proc,
                   Table(<<input.first>> \o input.rows).content, input.protocol))
    /\ pc' = "done"
    /\ UNCHANGED <<input, fs, connections, table_state, due, overflow_checks>>

NextTable == CallParseProcNetFile

SpecTable == InitTable /\ [][NextTable]_vars

\* the number of whitespace-separated fields of a line
FieldCount(line) ==
    Cardinality({i \in 1..Len(line) :
                    line[i] # " " /\ (i = 1 \/ line[i - 1] = " ")})

WellFormed(line) == FieldCount(line) >= 10

\* the Connection of one row parsed on its own, under a header
Alone(row, protocol, proc) ==
    parse_proc_net_file(EmptyCache, proc, Table(<<HeaderLine, row>>).content,
                        protocol).result.val

\* the end-to-end fixture: 127.0.0.1:8080 LISTEN, inode 12345, held by pid 100 "demo"
DemoListen(protocol) ==
    [protocol |-> protocol,
     local_address |-> <<"1", "2", "7", ".", "0", ".", "0", ".", "1">>,
     local_port |-> 8080,
     remote_address |-> Fallback, remote_port |-> 0,
     state |-> IF protocol = TCP THEN "LISTEN" ELSE "",
     pid |-> Some(100), process_name |-> Some(<<"d", "e", "m", "o">>)]

\* C2: the first line is discarded whatever it holds, every later line of
\* fewer than 10 fields is dropped, and the result is one Connection per
\* remaining line, in row order, each equal to what the row yields alone.
C2_LenientRowOrder ==
    pc = "done" =>
        LET kept == SelectSeq(input.rows, WellFormed)
        IN  /\ output.ok
            /\ Len(output.val) = Len(kept)
            /\ \A k \in 1..Len(kept) :
                   /\ <<output.val[k]>> = Alone(kept[k], input.protocol, fs.proc)
                   /\ kept[k] = Row_Listen => output.val[k] = DemoListen(input.protocol)

C2_Witness ==
    /\ pc = "done"
    /\ input.first = Row_Listen
    /\ input.rows = <<Row_Short, Row_Established, Row_Listen>>
    /\ Len(output.val) = 2
    /\ output.val[1].local_port = 80
    /\ output.val[2] = DemoListen(input.protocol)

----------------------------------------------------------------------------
(* Specification of the aggregator: one get_connections call *)

SourceFiles ==
    {Unreadable,
     Table(<<HeaderLine, Row_Listen>>),
     Table(<<HeaderLine, Row_Established, Row_Short, Row_NoInode>>)}

ProcDirs == {Unreadable, ProcDemo, Dir(<<E_nocomm, E_web>>), Dir(<<E_hidden, E_nocomm>>)}

StaleCache == 100 :> <<"o", "l", "d">>

\* input is the cache the call starts from
InitAggregate ==
    /\ pc = "call"
    /\ fs \in [tcp : SourceFiles, tcp6 : SourceFiles, udp : SourceFiles,
               udp6 : SourceFiles, proc : ProcDirs]
    /\ process_cache \in {EmptyCache, StaleCache}
    /\ input = process_cache
    /\ output = None
    /\ connections = <<>>
    /\ table_state = None
    /\ due = FALSE
    /\ overflow_checks = TRUE

CallGetConnections ==
    /\ pc = "call"
    /\ Returns(get_connections(process_cache, fs))
    /\ pc' = "done"
    /\ UNCHANGED <<input, fs, connections, table_state, due, overflow_checks>>

NextAggregate == CallGetConnections

SpecAggregate == InitAggregate /\ [][NextAggregate]_vars

Sources == <<"tcp", "tcp6", "udp", "udp6">>

Tag(source) ==
    CASE source = "tcp" -> TCP [] source = "tcp6" -> TCP6
      [] source = "udp" -> UDP [] source = "udp6" -> UDP6

\* what one source yields when the other three are unreadable
Only(source) ==
    get_connections(EmptyCache,
        [NoFiles EXCEPT ![source] = fs[source], !.proc = fs.proc]).result.val

\* C1: whatever subset of the four sources is unreadable, get_connections
\* returns Ok; an unreadable source contributes no row; the result is the
\* rows of the readable sources in the order TCP, TCP6, UDP, UDP6.
C1_UnreadableSourcesSkipped ==
    pc = "done" =>
        /\ output.ok
        /\ output.val = Only("tcp") \o Only("tcp6") \o Only("udp") \o Only("udp6")
        /\ \A k \in 1..4 :
               LET s == Sources[k]
               IN  /\ ~fs[s].readable => Only(s) = <<>>
                   /\ fs[s].readable =>
                          Len(Only(s)) = Len(SelectSeq(Tail(lines(fs[s].content)), WellFormed))
                   /\ \A i \in 1..Len(Only(s)) : Only(s)[i].protocol = Tag(s)

C1_Witness ==
    /\ pc = "done"
    /\ ~fs.udp.readable /\ ~fs.udp6.readable
    /\ fs.tcp.readable /\ fs.tcp6.readable
    /\ output.ok
    /\ Len(output.val) = 3
    /\ output.val[1].protocol = TCP6 \/ output.val[3].protocol = TCP6
    /\ \A i \in 1..Len(output.val) : output.val[i].protocol \in {TCP, TCP6}

IsProcess(e) ==
    e.readable /\ e.name # <<>> /\ \A i \in 1..Len(e.name) : to_digit(e.name[i], 10) >= 0

PidOf(e) == horner([i \in 1..Len(e.name) |-> to_digit(e.name[i], 10)], 10, 0)

\* e has a readable descriptor that is the socket of this inode
Holds(e, inode) ==
    /\ e.readable /\ e.fd.readable
    /\ \E k \in 1..Len(e.fd.entries) :
           /\ e.fd.entries[k].readable
           /\ e.fd.entries[k].content = SOCKET_PREFIX \o to_string_dec(inode) \o <<"]">>

EntriesOf(proc) == IF proc.readable THEN proc.entries ELSE <<>>

\* C9: in every Connection pid is present exactly when process_name is; a
\* process that holds the socket but whose comm cannot be read is never the
\* one reported; every cache entry the call wrote was returned, pid and
\* name together, in a Connection.
C9_PidIffName ==
    pc = "done" =>
        /\ \A i \in 1..Len(output.val) :
               LET c == output.val[i]
               IN  /\ c.pid.some <=> c.process_name.some
                   /\ c.pid.some =>
                          \E k \in 1..Len(EntriesOf(fs.proc)) :
                              LET e == fs.proc.entries[k]
                              IN  IsProcess(e) /\ PidOf(e) = c.pid.val /\ e.comm.readable
        /\ \A p \in DOMAIN process_cache :
               (p \notin DOMAIN input \/ input[p] # process_cache[p]) =>
                   \E i \in 1..Len(output.val) :
                       /\ output.val[i].pid = Some(p)
                       /\ output.val[i].process_name = Some(process_cache[p])

\* pid 400 holds the socket and has no readable comm: the scan goes on to pid 200
C9_Witness ==
    /\ pc = "done"
    /\ fs.proc = Dir(<<E_nocomm, E_web>>)
    /\ Holds(E_nocomm, 12345)
    /\ \E i \in 1..Len(output.val) :
           /\ output.val[i].local_port = 8080
           /\ output.val[i].pid = Some(200)
           /\ output.val[i].process_name = Some(<<"w", "e", "b">>)
    /\ 400 \notin DOMAIN process_cache

----------------------------------------------------------------------------
(* Specification of the resolver: one get_process_info call *)

MaxProcs == 3

EntryCat == {Unreadable, E_net, E_demo, E_web, E_hidden, E_nocomm, E_pipe}

\* /proc listings: no name twice
Listings ==
    {es \in UNION {[1..n -> EntryCat] : n \in 0..MaxProcs} :
        \A i \in 1..Len(es) : \A j \in 1..Len(es) :
            (i < j /\ es[i].readable) => es[i] # es[j]}

InitResolve ==
    /\ pc = "call"
    /\ input \in {0, 777, 12345}
    /\ fs \in {[NoFiles EXCEPT !.proc = d] : d \in {Unreadable} \cup {Dir(es) : es \in Listings}}
    /\ output = None
    /\ connections = <<>>
    /\ process_cache = EmptyCache
    /\ table_state = None
    /\ due = FALSE
    /\ overflow_checks = TRUE

CallGetProcessInfo ==
    /\ pc = "call"
    /\ output' = get_process_info(process_cache, fs.proc, input)
    /\ process_cache' = output'.self
    /\ pc' = "done"
    /\ UNCHANGED <<input, fs, connections, table_state, due, overflow_checks>>

NextResolve == CallGetProcessInfo

SpecResolve == InitResolve /\ [][NextResolve]_vars

\* name is text without the whitespace around it
Trimmed(name, text) ==
    /\ name # <<>> => (name[1] \notin Whitespace /\ name[Len(name)] \notin Whitespace)
    /\ \E i \in 1..(Len(text) + 1) :
           /\ i + Len(name) - 1 <= Len(text)
           /\ SubSeq(text, i, i + Len(name) - 1) = name
           /\ \A j \in 1..Len(text) :
                  (j < i \/ j > i + Len(name) - 1) => text[j] \in Whitespace

\* the entries the scan can match: a process that can be read (descriptors,
\* link, comm) and holds the socket
Matching(inode) ==
    {i \in 1..Len(EntriesOf(fs.proc)) :
        LET e == fs.proc.entries[i]
        IN  IsProcess(e) /\ Holds(e, inode) /\ e.comm.readable}

ProcessesUpTo(n) ==
    Cardinality({i \in 1..n : IsProcess(fs.proc.entries[i])})

\* C7: inode 0 gives (None, None) and no process is scanned; otherwise the
\* processes are scanned in order, what cannot be read is skipped, and the
\* scan stops at the first process holding the socket and returns its pid
\* and trimmed name; with no such process the result is (None, None).
C7_FirstMatchWins ==
    pc = "done" =>
        /\ input = 0 =>
               output.pid = None /\ output.process_name = None /\ output.scanned = 0
        /\ (input # 0 /\ Matching(input) = {}) =>
               /\ output.pid = None /\ output.process_name = None
               /\ output.scanned = ProcessesUpTo(Len(EntriesOf(fs.proc)))
        /\ (input # 0 /\ Matching(input) # {}) =>
               LET first == CHOOSE i \in Matching(input) : \A j \in Matching(input) : i <= j
                   e == fs.proc.entries[first]
               IN  /\ output.pid = Some(PidOf(e))
                   /\ output.process_name.some
                   /\ Trimmed(output.process_name.val, e.comm.content)
                   /\ output.scanned = ProcessesUpTo(first)

\* an unreadable process and a pipe of the same number come first, pid 200
\* is the first holder, pid 100 holds the socket too and is never reached
C7_Witness ==
    /\ pc = "done"
    /\ input = 12345
    /\ fs.proc = Dir(<<E_hidden, E_web, E_demo>>)
    /\ output.pid = Some(200)
    /\ output.process_name = Some(<<"w", "e", "b">>)
    /\ output.scanned = 2

----------------------------------------------------------------------------
(* The terminal loop: App and run_app *)

\* usize::MAX, narrowed to the 31 bits the checker's integers hold
UsizeMax == 2147483647

\* a - b on usize: the value, a panic (Err) in a build with overflow
\* checks, the wrapped value in a build without
usize_sub(a, b, checks) ==
    IF a >= b THEN Ok(a - b)
    ELSE IF checks THEN Err
    ELSE Ok(UsizeMax - (b - a - 1))

\* Faulty variant: the new rows are appended to the list: self.connections.extend(..)
store_extend(app, got) ==
    IF got.result.ok
    THEN [connections |-> app.connections \o got.result.val,
          process_cache |-> got.self, due |-> FALSE]
    ELSE [app EXCEPT !.process_cache = got.self]

\* if let Ok(connections) = .. { self.connections = connections; self.last_update = now }
store(app, got) ==
    IF got.result.ok
    THEN [connections |-> got.result.val, process_cache |-> got.self, due |-> FALSE]
    ELSE [app EXCEPT !.process_cache = got.self]

\* app is [connections, process_cache, due]: the fields update_connections touches
update_connections(app, files) == store(app, get_connections(app.process_cache, files))

\* App::next: Ok(the new selection), or Err when the subtraction panics
next(conns, selected, checks) ==
    IF ~selected.some THEN Ok(Some(0))
    ELSE LET last == usize_sub(Len(conns), 1, checks)
         IN  IF ~last.ok THEN Err
             ELSE IF selected.val >= last.val THEN Ok(Some(0))
             ELSE Ok(Some(selected.val + 1))

\* App::previous
previous(conns, selected, checks) ==
    IF ~selected.some THEN Ok(Some(0))
    ELSE IF selected.val = 0
    THEN LET last == usize_sub(Len(conns), 1, checks)
         IN  IF ~last.ok THEN Err ELSE Ok(Some(last.val))
    ELSE Ok(Some(selected.val - 1))

App == [connections |-> connections, process_cache |-> process_cache, due |-> due]

\* the App after update_connections
Becomes(app) ==
    /\ connections' = app.connections
    /\ process_cache' = app.process_cache
    /\ due' = app.due

\* the tail of one loop iteration: refresh when a second has passed
PeriodicUpdate(elapsed) ==
    IF due \/ elapsed
    THEN Becomes(update_connections([App EXCEPT !.due = TRUE], fs))
    ELSE UNCHANGED <<connections, process_cache, due>>

\* the selections the model follows: near 0 and near usize::MAX
MaxSelected == 2

Followed(selected) ==
    selected.some => (selected.val <= MaxSelected \/ selected.val >= UsizeMax - MaxSelected)

\* the tables the loop sees: /proc/net/tcp changes while it runs, /proc/net/udp
\* is absent or holds one socket for the whole run, the IPv6 tables are absent
T_one == Table(<<HeaderLine, Row_Listen>>)

T_two == Table(<<HeaderLine, Row_Short, Row_Listen, Row_NoInode>>)

LoopTables ==
    [tcp |-> {Unreadable, T_one, T_two}, udp |-> {Unreadable, Table(<<HeaderLine, Row_Established>>)}]

LoopProcs == {Dir(<<E_demo>>), Dir(<<E_other>>), Dir(<<E_net>>)}

Init ==
    /\ pc = "start"
    /\ input = None
    /\ output = None
    /\ fs \in {[NoFiles EXCEPT !.tcp = t, !.udp = u, !.proc = d] :
                  t \in LoopTables.tcp, u \in LoopTables.udp, d \in LoopProcs}
    /\ connections = <<>>
    /\ process_cache = EmptyCache
    /\ table_state = None
    /\ due = FALSE
    /\ overflow_checks \in BOOLEAN

\* run_app before the loop: app.update_connections().await
InitialLoad ==
    /\ pc = "start"
    /\ Becomes(update_connections(App, fs))
    /\ pc' = "loop"
    /\ UNCHANGED <<input, output, fs, table_state, overflow_checks>>

\* one iteration of the loop with 'q' or Esc read: return Ok(())
KeyQuit ==
    /\ pc = "loop"
    /\ pc' = "quit"
    /\ UNCHANGED <<input, output, fs, connections, process_cache, table_state, due,
                   overflow_checks>>

\* one iteration with Down or 'j' read; elapsed: a second has passed since last_update
KeyDown(elapsed) ==
    /\ pc = "loop"
    /\ LET moved == next(connections, table_state, overflow_checks)
       IN  IF moved.ok
           THEN /\ Followed(moved.val)
                /\ table_state' = moved.val
                /\ pc' = pc
                /\ PeriodicUpdate(elapsed)
           ELSE /\ pc' = "panicked"
                /\ UNCHANGED <<connections, process_cache, table_state, due>>
    /\ UNCHANGED <<input, output, fs, overflow_checks>>

\* one iteration with Up or 'k' read
KeyUp(elapsed) ==
    /\ pc = "loop"
    /\ LET moved == previous(connections, table_state, overflow_checks)
       IN  IF moved.ok
           THEN /\ Followed(moved.val)
                /\ table_state' = moved.val
                /\ pc' = pc
                /\ PeriodicUpdate(elapsed)
           ELSE /\ pc' = "panicked"
                /\ UNCHANGED <<connections, process_cache, table_state, due>>
    /\ UNCHANGED <<input, output, fs, overflow_checks>>

\* one iteration with another key, another event, or the poll timing out
NoKey(elapsed) ==
    /\ pc = "loop"
    /\ PeriodicUpdate(elapsed)
    /\ UNCHANGED <<pc, input, output, fs, table_state, overflow_checks>>

\* the kernel rewrites /proc/net/tcp (sockets open and close)
EnvTable ==
    /\ pc \in {"start", "loop"}
    /\ \E t \in LoopTables.tcp \ {fs.tcp} : fs' = [fs EXCEPT !.tcp = t]
    /\ UNCHANGED <<pc, input, output, connections, process_cache, table_state, due,
                   overflow_checks>>

\* processes exit and start (a pid can come back under another name)
EnvProc ==
    /\ pc \in {"start", "loop"}
    /\ \E d \in LoopProcs \ {fs.proc} : fs' = [fs EXCEPT !.proc = d]
    /\ UNCHANGED <<pc, input, output, connections, process_cache, table_state, due,
                   overflow_checks>>

Next ==
    \/ InitialLoad
    \/ KeyQuit
    \/ \E elapsed \in BOOLEAN : KeyDown(elapsed)
    \/ \E elapsed \in BOOLEAN : KeyUp(elapsed)
    \/ \E elapsed \in BOOLEAN : NoKey(elapsed)
    \/ EnvTable
    \/ EnvProc

Spec == Init /\ [][Next]_vars

----------------------------------------------------------------------------
(* Claims about the loop *)

\* C3: the snapshot the UI holds starts empty, and every step of the program
\* either keeps it as it is or replaces all of it by the complete result of a
\* successful get_connections call on the file system of that moment; the
\* refresh deadline (last_update) is only reset together with such a
\* replacement.
C3_SnapshotWholeOrKept ==
    /\ [](pc = "start" => connections = <<>>)
    /\ [][LET got == get_connections(process_cache, fs).result
          IN  /\ connections' # connections => (got.ok /\ connections' = got.val)
              /\ (due /\ ~due') => (got.ok /\ connections' = got.val)]_vars

\* a non-empty snapshot in force while the tables have moved on: the list is
\* the whole result of the last refresh, not that of the present file system
C3_Witness ==
    /\ pc = "loop"
    /\ Len(connections) = 3
    /\ connections[1].protocol = TCP /\ connections[3].protocol = UDP
    /\ fs.tcp = T_one
    /\ connections # get_connections(process_cache, fs).result.val

ProcessNamed(pid) ==
    LET e == proc_path(fs.proc, to_string_dec(pid))
    IN  IF e.readable /\ e.comm.readable THEN Some(e.comm.content) ELSE None

\* C8 as stated: the cache decides the name of a pid it already holds, so a
\* refresh that resolves a socket to a cached pid reports the cached name.
C8_CachedNameReported ==
    [][connections' # connections =>
          \A i \in 1..Len(connections') :
              LET c == connections'[i]
              IN  (c.pid.some /\ c.pid.val \in DOMAIN process_cache)
                      => c.process_name = Some(process_cache[c.pid.val])]_vars

\* C8 amended: the cache persists across refreshes and loses no entry when a
\* process exits or its pid is reused, but nothing reads it: every refresh
\* reports for a pid the name then in that pid's comm record and overwrites
\* the entry with it, so no snapshot carries the name of an earlier process.
C8_NameReadAfresh ==
    [][/\ DOMAIN process_cache \subseteq DOMAIN process_cache'
       /\ connections' # connections =>
              \A i \in 1..Len(connections') :
                  LET c == connections'[i]
                  IN  c.pid.some =>
                          /\ ProcessNamed(c.pid.val).some
                          /\ Trimmed(c.process_name.val, ProcessNamed(c.pid.val).val)
                          /\ process_cache'[c.pid.val] = c.process_name.val]_vars

\* pid 100 was resolved and cached as "demo"; that process is gone and pid 100
\* is now "other", holding the listed socket; the next refresh is to come
C8_Witness ==
    /\ pc = "loop"
    /\ 100 \in DOMAIN process_cache
    /\ process_cache[100] = <<"d", "e", "m", "o">>
    /\ \E i \in 1..Len(connections) :
           connections[i].pid = Some(100)
               /\ connections[i].process_name = Some(<<"d", "e", "m", "o">>)
    /\ fs.proc = Dir(<<E_other>>)
    /\ fs.tcp = T_one
    /\ Holds(E_other, 12345)

\* C10: the selected row is absent or an index into the current list, and
\* next()/previous() never compute connections.len() - 1 on an empty list.
C10_SelectionInRange ==
    /\ pc # "panicked"
    /\ table_state.some => table_state.val < Len(connections)

====
